---- MODULE Spec2Model ----
(***************************************************************************)
(* penman/interface.py: load, loads, dump, _dump and dumps.                *)
(*                                                                         *)
(* One call of one operation is followed for each kind of source/sink      *)
(* designator ("path", "stream", "int"), all three on the same arguments    *)
(* and each on its own copy of the same file, so that what the designator  *)
(* changes can be compared.  Text is a sequence of one-character strings.  *)
(***************************************************************************)
EXTENDS Naturals, Sequences, FiniteSets

\* ---------------------------------------------------------------- bounds
\* longest sequence of graphs given to dump/dumps, of graph texts in a source
MaxLen == 3
\* most graph texts a caller has already read from the stream it hands to load
MaxStart == 1

\* ------------------------------------------------------------ collaborators
NL == "\n"

\* the designators handed to load/dump: a str or Path, an open file object,
\* and a value that is neither (an integer)
Designators == {"path", "stream", "int"}

\* graphs: two that the codec encodes, one it rejects
Graphs == {"g1", "g2", "gx"}

\* graph texts in a source: two that the codec decodes, one malformed
Blocks == {"t1", "t2", "bad"}

\* what a file on disk may hold before dump is called
PriorTexts == {<< >>, <<"x", NL>>}

\* PENMANCodec.encode raises on gx
Encodable(g) == g # "gx"

\* PENMANCodec.encode: the text of a graph (g2 encodes on two lines)
Encode(g) ==
    CASE g = "g1" -> <<"(", "a", ")">>
      [] g = "g2" -> <<"(", "b", NL, ")">>

\* PENMANCodec.iterdecode raises on a malformed element
Decodable(b) == b # "bad"

\* PENMANCodec.iterdecode: the graph one element decodes to
Decode(b) ==
    CASE b = "t1" -> "g1"
      [] b = "t2" -> "g2"

SeqsUpTo(S, n) == UNION {[1..k -> S] : k \in 0..n}

\* ------------------------------------------------------------ pure helpers
\* isinstance(x, (str, Path))
IsPathLike(d) == d = "path"

\* hasattr(x, 'read') / hasattr(x, 'write')
HasAttr(d) == d = "stream"

\* str.join, as '\n\n'.join(strings) uses it
RECURSIVE Join(_, _)
Join(sep, strings) ==
    IF Len(strings) = 0 THEN << >>
    ELSE IF Len(strings) = 1 THEN strings[1]
    ELSE strings[1] \o sep \o Join(sep, Tail(strings))

\* a variant of the separator: a line break, no blank line
DumpsSepOne == <<NL>>

\* the separator dumps joins with
DumpsSep == <<NL, NL>>

\* ------------------------------------------------------------------ state
VARIABLES
    op,        \* the operation called: "load", "loads", "dump", "dumps"
    graphs,    \* the graphs argument of dump/dumps
    source,    \* the graph texts held by the source of load/loads
    prior,     \* what the sink file held when dump was called
    existed,   \* whether the file named by the path existed at the call
    startPos,  \* graph texts already read from the stream handed to load
    pc,        \* per call: the position in the code
    fh,        \* per call: the stream, "none", "open" or "closed"
    owned,     \* per call: the stream was opened by the operation itself
    exists,    \* per call: the file exists
    content,   \* per call: the text the sink holds
    pos,       \* per call: graph texts consumed from the source
    acc,       \* per call: the list that list(...) is building
    held,      \* per call: encoded texts produced and not yet written
    strings,   \* per call: the list dumps builds
    pulled,    \* per call: graphs taken from the graphs iterable
    ncalls,    \* per call: calls of codec.encode
    wrote,     \* per call: graph texts written to the sink
    err,       \* per call: the exception raised, "none" if none
    returned,  \* per call: the operation returned normally
    result     \* per call: the value returned

args == <<op, graphs, source, prior, existed, startPos>>
vars == <<op, graphs, source, prior, existed, startPos,
          pc, fh, owned, exists, content, pos, acc, held, strings,
          pulled, ncalls, wrote, err, returned, result>>

Init ==
    /\ op \in {"load", "loads", "dump", "dumps"}
    /\ graphs \in SeqsUpTo(Graphs, MaxLen)
    /\ source \in SeqsUpTo(Blocks, MaxLen)
    /\ existed \in BOOLEAN
    /\ prior \in PriorTexts
    /\ startPos \in 0..MaxStart
    \* only the arguments the operation reads vary
    /\ op \in {"dump", "dumps"} => source = << >> /\ startPos = 0
    /\ op \in {"load", "loads"} => graphs = << >> /\ prior = << >>
    /\ op \in {"loads", "dumps"} => ~existed /\ prior = << >> /\ startPos = 0
    /\ ~existed => prior = << >>
    /\ startPos <= Len(source)
    /\ pc = [d \in Designators |-> "start"]
    /\ fh = [d \in Designators |-> IF d = "stream" THEN "open" ELSE "none"]
    /\ owned = [d \in Designators |-> FALSE]
    /\ exists = [d \in Designators |-> existed]
    /\ content = [d \in Designators |-> prior]
    /\ pos = [d \in Designators |-> IF d = "stream" THEN startPos ELSE 0]
    /\ acc = [d \in Designators |-> << >>]
    /\ held = [d \in Designators |-> << >>]
    /\ strings = [d \in Designators |-> << >>]
    /\ pulled = [d \in Designators |-> 0]
    /\ ncalls = [d \in Designators |-> 0]
    /\ wrote = [d \in Designators |-> 0]
    /\ err = [d \in Designators |-> "none"]
    /\ returned = [d \in Designators |-> FALSE]
    /\ result = [d \in Designators |-> << >>]

\* ------------------------------------------------------------------- load
\* load, lines 82-87: the codec is built, the source classified, a path opened
Load(d) ==
    /\ op = "load" /\ pc[d] = "start"
    /\ IF IsPathLike(d)
       THEN IF exists[d]
            THEN /\ fh' = [fh EXCEPT ![d] = "open"]
                 /\ owned' = [owned EXCEPT ![d] = TRUE]
                 /\ pc' = [pc EXCEPT ![d] = "iterdecode"]
                 /\ err' = err
            ELSE /\ err' = [err EXCEPT ![d] = "FileNotFoundError"]
                 /\ pc' = [pc EXCEPT ![d] = "done"]
                 /\ UNCHANGED <<fh, owned>>
       ELSE IF HasAttr(d)
            THEN /\ pc' = [pc EXCEPT ![d] = "iterdecode"]
                 /\ UNCHANGED <<fh, owned, err>>
            ELSE /\ err' = [err EXCEPT ![d] = "AssertionError"]
                 /\ pc' = [pc EXCEPT ![d] = "done"]
                 /\ UNCHANGED <<fh, owned>>
    /\ UNCHANGED <<args, exists, content, pos, acc, held, strings,
                   pulled, ncalls, wrote, returned, result>>

\* loads, lines 104-105: no source to resolve, the string is decoded
Loads(d) ==
    /\ op = "loads" /\ pc[d] = "start"
    /\ pc' = [pc EXCEPT ![d] = "iterdecode"]
    /\ UNCHANGED <<args, fh, owned, exists, content, pos, acc, held, strings,
                   pulled, ncalls, wrote, err, returned, result>>

\* the next position of a call whose body is over: the with block of a path
\* still has to be left, any other call is back at its caller
Leave(d) == IF owned[d] /\ fh[d] = "open" THEN "with_exit" ELSE "done"

\* a variant of list(...): a malformed element ends the list, which is
\* returned with the graphs decoded so far
IterDecodePartial(d) ==
    /\ pc[d] = "iterdecode"
    /\ IF pos[d] = Len(source) \/ ~Decodable(source[pos[d] + 1])
       THEN /\ pc' = [pc EXCEPT ![d] = Leave(d)]
            /\ returned' = [returned EXCEPT ![d] = Leave(d) = "done"]
            /\ result' = [result EXCEPT ![d] =
                             IF Leave(d) = "done" THEN acc[d] ELSE @]
            /\ UNCHANGED <<pos, acc, err>>
       ELSE /\ acc' = [acc EXCEPT ![d] =
                          Append(@, Decode(source[pos[d] + 1]))]
            /\ pos' = [pos EXCEPT ![d] = @ + 1]
            /\ UNCHANGED <<pc, err, returned, result>>
    /\ UNCHANGED <<args, fh, owned, exists, content, held, strings,
                   pulled, ncalls, wrote>>

\* list(codec.iterdecode(...)), lines 85, 88, 105: one element is asked for
IterDecode(d) ==
    /\ pc[d] = "iterdecode"
    /\ IF pos[d] = Len(source)
       THEN \* the sequence is exhausted: list(...) has its value
            /\ pc' = [pc EXCEPT ![d] = Leave(d)]
            /\ returned' = [returned EXCEPT ![d] = Leave(d) = "done"]
            /\ result' = [result EXCEPT ![d] =
                             IF Leave(d) = "done" THEN acc[d] ELSE @]
            /\ UNCHANGED <<pos, acc, err>>
       ELSE IF Decodable(source[pos[d] + 1])
            THEN /\ acc' = [acc EXCEPT ![d] =
                               Append(@, Decode(source[pos[d] + 1]))]
                 /\ pos' = [pos EXCEPT ![d] = @ + 1]
                 /\ UNCHANGED <<pc, err, returned, result>>
            ELSE \* the element is malformed: the error leaves list(...)
                 /\ err' = [err EXCEPT ![d] = "DecodeError"]
                 /\ pos' = [pos EXCEPT ![d] = @ + 1]
                 /\ pc' = [pc EXCEPT ![d] = Leave(d)]
                 /\ UNCHANGED <<acc, returned, result>>
    /\ UNCHANGED <<args, fh, owned, exists, content, held, strings,
                   pulled, ncalls, wrote>>

\* a variant of the with block: the file is closed on the normal path only
WithExitLeak(d) ==
    /\ pc[d] = "with_exit"
    /\ fh' = [fh EXCEPT ![d] = IF err[d] = "none" THEN "closed" ELSE @]
    /\ pc' = [pc EXCEPT ![d] = "done"]
    /\ returned' = [returned EXCEPT ![d] = err[d] = "none"]
    /\ result' = [result EXCEPT ![d] =
                     IF err[d] = "none" /\ op = "load" THEN acc[d] ELSE @]
    /\ UNCHANGED <<args, owned, exists, content, pos, acc, held, strings,
                   pulled, ncalls, wrote, err>>

\* a variant of the with block: the list built inside it is not returned
WithExitNoValue(d) ==
    /\ pc[d] = "with_exit"
    /\ fh' = [fh EXCEPT ![d] = "closed"]
    /\ pc' = [pc EXCEPT ![d] = "done"]
    /\ returned' = [returned EXCEPT ![d] = err[d] = "none"]
    /\ UNCHANGED <<args, owned, exists, content, pos, acc, held, strings,
                   pulled, ncalls, wrote, err, result>>

\* the end of a with block, lines 84 and 127: the file is closed, then the
\* value is returned or the exception goes on to the caller
WithExit(d) ==
    /\ pc[d] = "with_exit"
    /\ fh' = [fh EXCEPT ![d] = "closed"]
    /\ pc' = [pc EXCEPT ![d] = "done"]
    /\ returned' = [returned EXCEPT ![d] = err[d] = "none"]
    /\ result' = [result EXCEPT ![d] =
                     IF err[d] = "none" /\ op = "load" THEN acc[d] ELSE @]
    /\ UNCHANGED <<args, owned, exists, content, pos, acc, held, strings,
                   pulled, ncalls, wrote, err>>

\* ------------------------------------------------------------------- dump
\* a variant of dump: the path is opened with mode 'a', nothing is truncated
DumpAppend(d) ==
    /\ op = "dump" /\ pc[d] = "start"
    /\ IF IsPathLike(d)
       THEN /\ fh' = [fh EXCEPT ![d] = "open"]
            /\ owned' = [owned EXCEPT ![d] = TRUE]
            /\ exists' = [exists EXCEPT ![d] = TRUE]
            /\ pc' = [pc EXCEPT ![d] = "dump_first"]
            /\ UNCHANGED <<content, err>>
       ELSE IF HasAttr(d)
            THEN /\ pc' = [pc EXCEPT ![d] = "dump_first"]
                 /\ UNCHANGED <<fh, owned, exists, content, err>>
            ELSE /\ err' = [err EXCEPT ![d] = "AssertionError"]
                 /\ pc' = [pc EXCEPT ![d] = "done"]
                 /\ UNCHANGED <<fh, owned, exists, content>>
    /\ UNCHANGED <<args, pos, acc, held, strings, pulled, ncalls, wrote,
                   returned, result>>

\* a variant of dump: whatever is not a path is handed to _dump unchecked
DumpUnchecked(d) ==
    /\ op = "dump" /\ pc[d] = "start"
    /\ IF IsPathLike(d)
       THEN /\ fh' = [fh EXCEPT ![d] = "open"]
            /\ owned' = [owned EXCEPT ![d] = TRUE]
            /\ exists' = [exists EXCEPT ![d] = TRUE]
            /\ content' = [content EXCEPT ![d] = << >>]
            /\ pc' = [pc EXCEPT ![d] = "dump_first"]
            /\ err' = err
       ELSE /\ pc' = [pc EXCEPT ![d] = "dump_first"]
            /\ UNCHANGED <<fh, owned, exists, content, err>>
    /\ UNCHANGED <<args, pos, acc, held, strings, pulled, ncalls, wrote,
                   returned, result>>

\* dump, lines 125-130: the codec is built, the sink classified, a path
\* opened with mode 'w' (created if absent, truncated)
Dump(d) ==
    /\ op = "dump" /\ pc[d] = "start"
    /\ IF IsPathLike(d)
       THEN /\ fh' = [fh EXCEPT ![d] = "open"]
            /\ owned' = [owned EXCEPT ![d] = TRUE]
            /\ exists' = [exists EXCEPT ![d] = TRUE]
            /\ content' = [content EXCEPT ![d] = << >>]
            /\ pc' = [pc EXCEPT ![d] = "dump_first"]
            /\ err' = err
       ELSE IF HasAttr(d)
            THEN /\ pc' = [pc EXCEPT ![d] = "dump_first"]
                 /\ UNCHANGED <<fh, owned, exists, content, err>>
            ELSE /\ err' = [err EXCEPT ![d] = "AssertionError"]
                 /\ pc' = [pc EXCEPT ![d] = "done"]
                 /\ UNCHANGED <<fh, owned, exists, content>>
    /\ UNCHANGED <<args, pos, acc, held, strings, pulled, ncalls, wrote,
                   returned, result>>

\* the generator ss of _dump, lines 136-137, asked for its next text: it
\* takes one graph from gs and encodes it; toText is where a text leads
GenNext(d, toText) ==
    IF pulled[d] = Len(graphs)
    THEN \* gs is exhausted: _dump returns (lines 140-141, end of line 142)
         /\ pc' = [pc EXCEPT ![d] = Leave(d)]
         /\ returned' = [returned EXCEPT ![d] = Leave(d) = "done"]
         /\ UNCHANGED <<pulled, ncalls, held, err>>
    ELSE /\ pulled' = [pulled EXCEPT ![d] = @ + 1]
         /\ ncalls' = [ncalls EXCEPT ![d] = @ + 1]
         /\ IF Encodable(graphs[pulled[d] + 1])
            THEN /\ held' = [held EXCEPT ![d] =
                                Append(@, Encode(graphs[pulled[d] + 1]))]
                 /\ pc' = [pc EXCEPT ![d] = toText]
                 /\ UNCHANGED <<err, returned>>
            ELSE /\ err' = [err EXCEPT ![d] = "EncodeError"]
                 /\ pc' = [pc EXCEPT ![d] = Leave(d)]
                 /\ UNCHANGED <<held, returned>>

\* fh.write(text) as print calls it: the text reaches the sink, or the
\* write fails and the error leaves _dump
Write(d, text, ok, toNext) ==
    IF ok
    THEN /\ content' = [content EXCEPT ![d] = @ \o text]
         /\ pc' = [pc EXCEPT ![d] = toNext]
         /\ err' = err
    ELSE /\ err' = [err EXCEPT ![d] = "OSError"]
         /\ pc' = [pc EXCEPT ![d] = Leave(d)]
         /\ content' = content

\* a variant of _dump: every graph is encoded into a list before the first
\* write, as dumps does
DumpFirstBuffered(d) ==
    /\ pc[d] = "dump_first"
    /\ IF Len(graphs) = 0
       THEN /\ pc' = [pc EXCEPT ![d] = Leave(d)]
            /\ returned' = [returned EXCEPT ![d] = Leave(d) = "done"]
            /\ UNCHANGED <<pulled, ncalls, held, err>>
       ELSE IF \A i \in 1..Len(graphs) : Encodable(graphs[i])
            THEN /\ held' = [held EXCEPT ![d] =
                                [i \in 1..Len(graphs) |-> Encode(graphs[i])]]
                 /\ pulled' = [pulled EXCEPT ![d] = Len(graphs)]
                 /\ ncalls' = [ncalls EXCEPT ![d] = Len(graphs)]
                 /\ pc' = [pc EXCEPT ![d] = "print_text"]
                 /\ UNCHANGED <<err, returned>>
            ELSE /\ err' = [err EXCEPT ![d] = "EncodeError"]
                 /\ pulled' = [pulled EXCEPT ![d] = Len(graphs)]
                 /\ ncalls' = [ncalls EXCEPT ![d] = Len(graphs)]
                 /\ pc' = [pc EXCEPT ![d] = Leave(d)]
                 /\ UNCHANGED <<held, returned>>
    /\ UNCHANGED <<args, fh, owned, exists, content, pos, acc, strings,
                   wrote, result>>

\* _dump, line 139: next(ss) inside the try
DumpFirst(d) ==
    /\ pc[d] = "dump_first"
    /\ GenNext(d, "print_text")
    /\ UNCHANGED <<args, fh, owned, exists, content, pos, acc, strings,
                   wrote, result>>

\* print(s, file=fh), lines 139 and 144: the text is written first
WriteText(d) ==
    /\ pc[d] = "print_text"
    /\ \E ok \in BOOLEAN :
          /\ Write(d, Head(held[d]), ok, "print_end")
          /\ held' = [held EXCEPT ![d] = IF ok THEN Tail(@) ELSE @]
          /\ wrote' = [wrote EXCEPT ![d] = IF ok THEN @ + 1 ELSE @]
    /\ UNCHANGED <<args, fh, owned, exists, pos, acc, strings, pulled,
                   ncalls, returned, result>>

\* a variant of print: the text is written with end='', no line break
WriteEndNone(d) ==
    /\ pc[d] = "print_end"
    /\ pc' = [pc EXCEPT ![d] = "dump_loop"]
    /\ UNCHANGED <<args, fh, owned, exists, content, pos, acc, held, strings,
                   pulled, ncalls, wrote, err, returned, result>>

\* print(s, file=fh), lines 139 and 144: then the line break
WriteEnd(d) ==
    /\ pc[d] = "print_end"
    /\ \E ok \in BOOLEAN : Write(d, <<NL>>, ok, "dump_loop")
    /\ UNCHANGED <<args, fh, owned, exists, pos, acc, held, strings, pulled,
                   ncalls, wrote, returned, result>>

\* a variant of the loop: the blank line is written before the next graph
\* is asked for
DumpLoopBlankFirst(d) ==
    /\ pc[d] = "dump_loop"
    /\ IF pulled[d] < Len(graphs)
       THEN content' = [content EXCEPT ![d] = @ \o <<NL>>]
       ELSE content' = content
    /\ GenNext(d, "print_text")
    /\ UNCHANGED <<args, fh, owned, exists, pos, acc, strings,
                   wrote, result>>

\* _dump, line 142: the for statement asks ss for the next text
DumpLoop(d) ==
    /\ pc[d] = "dump_loop"
    /\ GenNext(d, "print_blank")
    /\ UNCHANGED <<args, fh, owned, exists, content, pos, acc, strings,
                   wrote, result>>

\* print(file=fh), line 143: the blank line before a later graph
WriteBlank(d) ==
    /\ pc[d] = "print_blank"
    /\ \E ok \in BOOLEAN : Write(d, <<NL>>, ok, "print_text")
    /\ UNCHANGED <<args, fh, owned, exists, pos, acc, held, strings, pulled,
                   ncalls, wrote, returned, result>>

\* ------------------------------------------------------------------ dumps
\* dumps, line 164: the codec is built
Dumps(d) ==
    /\ op = "dumps" /\ pc[d] = "start"
    /\ pc' = [pc EXCEPT ![d] = "dumps_encode"]
    /\ UNCHANGED <<args, fh, owned, exists, content, pos, acc, held, strings,
                   pulled, ncalls, wrote, err, returned, result>>

\* dumps, lines 165-167: one turn of the list comprehension
DumpsEncode(d) ==
    /\ pc[d] = "dumps_encode"
    /\ IF pulled[d] = Len(graphs)
       THEN /\ pc' = [pc EXCEPT ![d] = "dumps_join"]
            /\ UNCHANGED <<pulled, ncalls, strings, err>>
       ELSE /\ pulled' = [pulled EXCEPT ![d] = @ + 1]
            /\ ncalls' = [ncalls EXCEPT ![d] = @ + 1]
            /\ IF Encodable(graphs[pulled[d] + 1])
               THEN /\ strings' = [strings EXCEPT ![d] =
                                      Append(@, Encode(graphs[pulled[d] + 1]))]
                    /\ UNCHANGED <<pc, err>>
               ELSE /\ err' = [err EXCEPT ![d] = "EncodeError"]
                    /\ pc' = [pc EXCEPT ![d] = "done"]
                    /\ UNCHANGED strings
    /\ UNCHANGED <<args, fh, owned, exists, content, pos, acc, held, wrote,
                   returned, result>>

\* dumps, line 168: the texts are joined and returned
DumpsJoin(d) ==
    /\ pc[d] = "dumps_join"
    /\ result' = [result EXCEPT ![d] = Join(DumpsSep, strings[d])]
    /\ returned' = [returned EXCEPT ![d] = TRUE]
    /\ pc' = [pc EXCEPT ![d] = "done"]
    /\ UNCHANGED <<args, fh, owned, exists, content, pos, acc, held, strings,
                   pulled, ncalls, wrote, err>>

Next ==
    \E d \in Designators :
        \/ Load(d)
        \/ Loads(d)
        \/ IterDecode(d)
        \/ WithExit(d)
        \/ Dump(d)
        \/ DumpFirst(d)
        \/ WriteText(d)
        \/ WriteEnd(d)
        \/ DumpLoop(d)
        \/ WriteBlank(d)
        \/ Dumps(d)
        \/ DumpsEncode(d)
        \/ DumpsJoin(d)

Spec == Init /\ [][Next]_vars

\* ------------------------------------------------------- terms of the claims
\* the calls that reach the codec: a path or a stream
Resolved == {"path", "stream"}

\* what the sink of call d holds when _dump starts writing
Base(d) == IF d = "path" THEN << >> ELSE prior

\* the framing of dump as the specification words it, from graph k on:
\* a blank line, the text, a line break
RECURSIVE Later(_, _)
Later(gs, k) ==
    IF k > Len(gs) THEN << >>
    ELSE <<NL>> \o Encode(gs[k]) \o <<NL>> \o Later(gs, k + 1)

\* the first text and a line break, then the later graphs
Framed(gs) ==
    IF Len(gs) = 0 THEN << >> ELSE Encode(gs[1]) \o <<NL>> \o Later(gs, 2)

\* the text of dumps as the specification words it, from graph k on
RECURSIVE Joined(_, _)
Joined(gs, k) ==
    IF k > Len(gs) THEN << >>
    ELSE (IF k = 1 THEN << >> ELSE <<NL, NL>>) \o Encode(gs[k])
         \o Joined(gs, k + 1)

\* the index of the first graph the codec rejects, 0 if there is none
FirstBad(gs) ==
    IF \A i \in 1..Len(gs) : Encodable(gs[i]) THEN 0
    ELSE CHOOSE k \in 1..Len(gs) :
             /\ ~Encodable(gs[k])
             /\ \A j \in 1..(k - 1) : Encodable(gs[j])

\* the graphs before the first one the codec rejects
GoodPrefix(gs) ==
    IF FirstBad(gs) = 0 THEN gs ELSE SubSeq(gs, 1, FirstBad(gs) - 1)

\* the graph texts call d of load/loads has before it
Seen(d) == SubSeq(source, (IF d = "stream" THEN startPos ELSE 0) + 1,
                  Len(source))

\* call d of load/loads got as far as decoding
Decoding(d) ==
    \/ op = "loads"
    \/ op = "load" /\ (d = "stream" \/ (d = "path" /\ existed))

\* ---------------------------------------------------------------- claims
\* C1: a dump that returns, to a sink that started empty, leaves in the sink
\* encode(g1) + "\n" followed, for k = 2..n in order, by
\* "\n" + encode(gk) + "\n"; with no graphs the sink stays empty.
C1_DumpFraming ==
    \A d \in Resolved :
        (op = "dump" /\ pc[d] = "done" /\ returned[d] /\ Base(d) = << >>)
        => /\ content[d] = Framed(graphs)
           /\ Len(graphs) = 0 => content[d] = << >>
           /\ Len(graphs) = 2 =>
                 content[d] = Encode(graphs[1]) \o <<NL>> \o <<NL>>
                              \o Encode(graphs[2]) \o <<NL>>

C1_Witness ==
    /\ op = "dump" /\ Len(graphs) = 3 /\ graphs[1] # graphs[2]
    /\ \A d \in Resolved : pc[d] = "done" /\ returned[d]
    /\ content["stream"] = Framed(graphs)

\* C2: a dumps that returns gives the encodings in input order with exactly
\* "\n\n" between consecutive ones and no line break after the last: the
\* empty string for no graphs, encode(g) for one, and
\* encode(g1) + "\n\n" + encode(g2) for two.
C2_DumpsJoined ==
    \A d \in Designators :
        (op = "dumps" /\ pc[d] = "done" /\ returned[d])
        => /\ result[d] = Joined(graphs, 1)
           /\ Len(graphs) = 0 => result[d] = << >>
           /\ Len(graphs) = 1 => result[d] = Encode(graphs[1])
           /\ Len(graphs) = 2 =>
                 result[d] = Encode(graphs[1]) \o <<NL, NL>>
                             \o Encode(graphs[2])
           /\ Len(graphs) > 0 => result[d][Len(result[d])] # NL

C2_Witness ==
    /\ op = "dumps" /\ Len(graphs) = 3 /\ graphs[2] # graphs[3]
    /\ pc["path"] = "done" /\ returned["path"]
    /\ result["path"] = Joined(graphs, 1)

\* C3: load or dump given a designator that is neither path-like nor has the
\* capability (an integer) fails with UnsupportedSourceKind (load) or
\* UnsupportedSinkKind (dump).
C3_DedicatedError ==
    (op \in {"load", "dump"} /\ pc["int"] = "done")
    => err["int"] = (IF op = "load" THEN "UnsupportedSourceKind"
                     ELSE "UnsupportedSinkKind")

\* C4: a stream that load or dump opened from a path is closed once the
\* operation has exited, however it exits, and a stream the caller supplied
\* is never closed.
C4_OwnedClosedBorrowedOpen ==
    op \in {"load", "dump"} =>
        \A d \in Designators :
            /\ (pc[d] = "done" /\ owned[d]) => fh[d] = "closed"
            /\ pc[d] = "done" => fh[d] # "open" \/ ~owned[d]
            /\ ~owned[d] => fh[d] = (IF d = "stream" THEN "open" ELSE "none")

C4_Witness ==
    /\ op \in {"load", "dump"}
    /\ pc["path"] = "done" /\ owned["path"] /\ fh["path"] = "closed"
    /\ err["path"] \in {"DecodeError", "EncodeError", "OSError"}
    /\ pc["stream"] = "done" /\ err["stream"] # "none"
    /\ fh["stream"] = "open"

\* C5: a load or loads whose elements all decode returns the list of all
\* decoded graphs in source order, the sequence exhausted; if an element
\* fails to decode, the error is raised and no list is returned.
C5_AllOrNothing ==
    \A d \in Designators :
        (Decoding(d) /\ pc[d] = "done")
        => IF \A i \in 1..Len(Seen(d)) : Decodable(Seen(d)[i])
           THEN /\ returned[d] /\ err[d] = "none"
                /\ result[d] = [i \in 1..Len(Seen(d)) |-> Decode(Seen(d)[i])]
                /\ pos[d] = Len(source)
           ELSE /\ ~returned[d] /\ err[d] = "DecodeError"
                /\ result[d] = << >>

C5_Witness ==
    /\ op = "load" /\ Len(source) = 3
    /\ Decodable(source[1]) /\ ~Decodable(source[2]) /\ Decodable(source[3])
    /\ pc["path"] = "done" /\ err["path"] = "DecodeError"
    /\ acc["path"] = <<Decode(source[1])>> /\ ~returned["path"]

\* C6: when encoding graph k fails in dump, the sink holds what a dump of
\* graphs 1..k-1 would have written (no blank line for graph k), graph k is
\* the last one taken and encoded, and the error reaches the caller.
C6_EncodeFailureKeepsPrefix ==
    \A d \in Resolved :
        (op = "dump" /\ pc[d] = "done" /\ err[d] = "EncodeError")
        => /\ FirstBad(graphs) > 0
           /\ content[d] =
                 Base(d) \o Framed(GoodPrefix(graphs))
           /\ pulled[d] = FirstBad(graphs)
           /\ ncalls[d] = FirstBad(graphs)
           /\ ~returned[d]

C6_Witness ==
    /\ op = "dump" /\ Len(graphs) = 3 /\ FirstBad(graphs) = 2
    /\ pc["stream"] = "done" /\ err["stream"] = "EncodeError"
    /\ content["stream"] = Base("stream") \o Encode(graphs[1]) \o <<NL>>

C8_OneTextInFlight ==
    op = "dump" =>
        \A d \in Designators :
            /\ Len(held[d]) <= 1
            /\ pulled[d] <= wrote[d] + 1
            /\ ncalls[d] = pulled[d]
            /\ pc[d] \in {"dump_first", "dump_loop"} => wrote[d] = pulled[d]

C8_Witness ==
    /\ op = "dump" /\ Len(graphs) = 3
    /\ pulled["path"] = 2 /\ wrote["path"] = 1
    /\ held["path"] = <<Encode(graphs[2])>>
    /\ pc["path"] = "print_blank"

\* C9: when dump rejects its sink as unsupported it fails having taken no
\* graph, encoded none, opened no file and written nothing.
C9_RejectedSinkTouchesNothing ==
    op = "dump" =>
        /\ pc["int"] = "done" => err["int"] # "none" /\ ~returned["int"]
        /\ pc["int"] \in {"start", "done"}
        /\ pulled["int"] = 0 /\ ncalls["int"] = 0 /\ wrote["int"] = 0
        /\ held["int"] = << >>
        /\ fh["int"] = "none" /\ ~owned["int"]
        /\ exists["int"] = existed /\ content["int"] = prior

C9_Witness ==
    /\ op = "dump" /\ Len(graphs) = 2 /\ pc["int"] = "done"
    /\ err["int"] = "AssertionError" /\ pulled["int"] = 0
    /\ pulled["stream"] = 2

\* C10: dump given a path opens the file for writing, truncated, before any
\* graph is encoded, so after it returns the file holds the output of this
\* call only; with no graphs the file exists and is empty, while a stream
\* given no graphs keeps its contents.
C10_PathTruncated ==
    op = "dump" =>
        /\ ncalls["path"] > 0 => owned["path"] /\ exists["path"]
        /\ pc["path"] # "start" =>
              \E n \in 0..Len(Framed(GoodPrefix(graphs))) :
                  content["path"] = SubSeq(Framed(GoodPrefix(graphs)), 1, n)
        /\ (pc["path"] = "done" /\ returned["path"])
           => exists["path"] /\ content["path"] = Framed(graphs)
        /\ (pc["path"] = "done" /\ Len(graphs) = 0)
           => exists["path"] /\ content["path"] = << >>
        /\ (pc["stream"] = "done" /\ Len(graphs) = 0)
           => content["stream"] = prior

C10_Witness ==
    /\ op = "dump" /\ Len(graphs) = 0 /\ prior # << >>
    /\ pc["path"] = "done" /\ content["path"] = << >>
    /\ pc["stream"] = "done" /\ content["stream"] = prior
====
